---- MODULE Spec2Model ----
(***************************************************************************)
(* Storage device management of sysbuilder: the kernel tables the external *)
(* tools read and write (backing files, loop bindings, partitions,         *)
(* filesystems, mounts), the command wrappers of sysbuilder/storage.py and *)
(* of sysbuilder/shell.py, the BlockDevice tree that mirrors the kernel    *)
(* and the Storage orchestrator that drives it.                            *)
(*                                                                         *)
(* Every Python method is an operator over a context record                *)
(*   [k, cmds, fault, rc, code, failed, late, exc, tree]                   *)
(* k is the kernel state, cmds the external processes started so far (in   *)
(* order), fault/rc an injected process failure (the fault-th process      *)
(* started exits with code rc), code the exit code of the last process,    *)
(* failed whether some process exited non-zero, late the number of         *)
(* processes started after one had failed, exc the Python exception        *)
(* in flight (None when there is none) and tree the BlockDevice object     *)
(* graph of the Storage object.  An operator whose context already carries *)
(* an exception does nothing: this is Python's propagation of an uncaught  *)
(* exception.                                                              *)
(***************************************************************************)
EXTENDS Integers, Sequences, FiniteSets, TLC

VARIABLES
    kernel,     \* files, loop table, partitions, filesystems, mounts, dirs
    storage,    \* the Storage object: [cfg, device], or NoStorage
    cmds,       \* external processes started by the last operation
    last,       \* the last operation: its name, arguments and outcome
    actors      \* callers inside create_partition, each with its position

vars == <<kernel, storage, cmds, last, actors>>

None == "None"                       \* Python None, JSON null

(***************************************************************************)
(* Bounds of the model.                                                    *)
(***************************************************************************)
MaxParts == 3                        \* longest layout, most partitions
MaxFault == 9                        \* latest process an injected fault hits
MaxIncoming == 2                     \* most children in a record given to update
MaxShellParts == 1                   \* most partitions made through shell.py

(***************************************************************************)
(* Strings that are compared character by character (mount paths, size     *)
(* strings) are sequences of one-character strings.                        *)
(***************************************************************************)
SwapMp == <<"s", "w", "a", "p">>     \* the mountpoint literal "swap"
NullMp == <<>>                       \* a null entry of lsblk's "mountpoints"

(***************************************************************************)
(* The host: image paths a configuration may name, the one free loop       *)
(* device of the host and the names of its partitions.                     *)
(***************************************************************************)
\* Paths a caller may give: one absolute, one relative to the working
\* directory.
RelPaths == {"b"}
RawPaths == {"/img/a"} \cup RelPaths
Cwd == "/img"

\* os.path.abspath
abspath(path) == IF path \in RelPaths THEN Cwd \o "/" \o path ELSE path

ImgPaths == {abspath(p) : p \in RawPaths}
LoopDevs == {"/dev/loop0"}

PartPath(dev, n) == dev \o "p" \o ToString(n)
PartPaths == {PartPath(d, n) : d \in LoopDevs, n \in 1..(MaxParts + 1)}

IsPart(devpath) == devpath \in PartPaths
DiskOf(devpath) == CHOOSE d \in LoopDevs : \E n \in 1..(MaxParts + 1) : devpath = PartPath(d, n)
NumOf(devpath)  == CHOOSE n \in 1..(MaxParts + 1) : \E d \in LoopDevs : devpath = PartPath(d, n)

\* lsblk's "name" column: the path without "/dev/".
ShortName(devpath) ==
    IF devpath \in LoopDevs THEN "loop0"
    ELSE "loop0p" \o ToString(NumOf(devpath))

\* The filesystem types of the calls: one made by mkfs, one by mkswap.
FsTypes == {"ext4", "swap"}

KernelInit ==
    [ files |-> <<>>,                              \* path :> size in MiB
      loops |-> [d \in LoopDevs |-> None],         \* back-file, or None
      parts |-> [d \in LoopDevs |-> <<>>],         \* partitions, by number
      dirs  |-> {},                                \* host directories
      tables |-> <<>> ]                            \* image :> its table, unbound

\* A partition as the kernel holds it.
NewPart(typecode) == [typecode |-> typecode, fstype |-> None, mounts |-> <<>>]

\* The executables on the host's PATH.
Tools ==
    {"dd", "losetup", "lsblk", "partprobe", "sgdisk", "mkfs", "mkswap", "mount",
     "umount", "sudo"}

\* Is some partition of the disk mounted?
Busy(k, disk) ==
    \E n \in 1..Len(k.parts[disk]) : k.parts[disk][n].mounts # <<>>

\* Is a partition mounted at mountpoint?
IsMountpoint(k, mountpoint) ==
    \E d \in LoopDevs : \E n \in 1..Len(k.parts[d]) :
        \E i \in 1..Len(k.parts[d][n].mounts) : k.parts[d][n].mounts[i] = mountpoint

\* A partition mounted at mountpoint: [disk, num].
MountedAt(k, mountpoint) ==
    CHOOSE p \in [disk : LoopDevs, num : 1..(MaxParts + 1)] :
        /\ p.num <= Len(k.parts[p.disk])
        /\ \E i \in 1..Len(k.parts[p.disk][p.num].mounts) :
               k.parts[p.disk][p.num].mounts[i] = mountpoint

\* A sequence without its entries equal to x.
RECURSIVE Without(_, _)
Without(s, x) ==
    IF s = <<>> THEN <<>>
    ELSE IF Head(s) = x THEN Without(Tail(s), x)
    ELSE <<Head(s)>> \o Without(Tail(s), x)

\* Does the block device devpath exist?
DevExists(k, devpath) ==
    \/ devpath \in LoopDevs /\ k.loops[devpath] # None
    \/ /\ IsPart(devpath)
       /\ k.loops[DiskOf(devpath)] # None
       /\ NumOf(devpath) <= Len(k.parts[DiskOf(devpath)])

\* os.stat(path): "blk" for a block device, "reg" for a regular file and
\* "absent" when nothing has the name; the node of a loop device is there
\* whether or not the device is bound.
Stat(k, path) ==
    IF path \in LoopDevs THEN "blk"
    ELSE IF IsPart(path) /\ DevExists(k, path) THEN "blk"
    ELSE IF path \in DOMAIN k.files THEN "reg"
    ELSE "absent"

(***************************************************************************)
(* External processes.  A command is what subprocess.run is given; its     *)
(* exit code and its effect on the kernel are the tool's.                  *)
(***************************************************************************)
Cmd(tool, mode, dev) ==
    [tool |-> tool, mode |-> mode, dev |-> dev, num |-> 0, arg |-> "", path |-> <<>>]

DdCmd(path, count)       == [Cmd("dd", "sparse", path) EXCEPT !.num = count]
AttachCmd(path)          == Cmd("losetup", "attach", path)
LoopListCmd(dev)         == Cmd("losetup", "list", dev)
LsblkCmd(dev)            == Cmd("lsblk", "json", dev)
PartprobeCmd(dev)        == Cmd("partprobe", "", dev)
SgdiskCmd(dev, n, tcode) == [Cmd("sgdisk", "new", dev) EXCEPT !.num = n, !.arg = tcode]
MkfsCmd(dev, fstype)     == [Cmd("mkfs", "type", dev) EXCEPT !.arg = fstype]
MkswapCmd(dev)           == Cmd("mkswap", "", dev)
MountCmd(dev, mp)        == [Cmd("mount", "", dev) EXCEPT !.path = mp]
DetachCmd(dev)           == Cmd("losetup", "detach", dev)
FindCmd                  == Cmd("losetup", "find", "")
SgdiskNewCmd(dev, n)     == [Cmd("sgdisk", "create", dev) EXCEPT !.num = n]
SgdiskTypeCmd(dev, n, tcode) ==
    [Cmd("sgdisk", "typecode", dev) EXCEPT !.num = n, !.arg = tcode]
UmountCmd(mp)            == [Cmd("umount", "", "") EXCEPT !.path = mp]
UnmountCmd(mp)           == [Cmd("unmount", "", "") EXCEPT !.path = mp]

\* Exit codes of the tools.
NotFoundCode == 32                   \* lsblk: device not found
ExitCodes    == {1, NotFoundCode}
FailCode     == CHOOSE c \in ExitCodes : c # NotFoundCode /\ \A d \in ExitCodes : c <= d

\* The loop device losetup --find --nooverlap binds path to: the one that
\* already has it, else a free one; None when there is none.
FindLoop(k, path) ==
    IF \E d \in LoopDevs : k.loops[d] = path
    THEN CHOOSE d \in LoopDevs : k.loops[d] = path
    ELSE IF \E d \in LoopDevs : k.loops[d] = None
    THEN CHOOSE d \in LoopDevs : k.loops[d] = None
    ELSE None

\* The exit code of cmd run against kernel state k (0: success).
NaturalCode(k, cmd) ==
    CASE cmd.tool = "dd" -> 0
      [] cmd.tool = "losetup" /\ cmd.mode = "attach" ->
            IF cmd.dev \in DOMAIN k.files /\ FindLoop(k, cmd.dev) # None
            THEN 0 ELSE FailCode
      [] cmd.tool = "losetup" /\ cmd.mode = "list" ->
            IF cmd.dev \in LoopDevs /\ k.loops[cmd.dev] # None THEN 0 ELSE FailCode
      [] cmd.tool = "losetup" /\ cmd.mode = "detach" ->
            IF cmd.dev \in LoopDevs /\ k.loops[cmd.dev] # None THEN 0 ELSE FailCode
      [] cmd.tool = "losetup" /\ cmd.mode = "find" ->
            IF \E d \in LoopDevs : k.loops[d] = None THEN 0 ELSE FailCode
      [] cmd.tool = "lsblk" ->
            IF DevExists(k, cmd.dev) THEN 0 ELSE NotFoundCode
      [] cmd.tool = "partprobe" ->
            IF DevExists(k, cmd.dev) THEN 0 ELSE FailCode
      [] cmd.tool = "sgdisk" /\ cmd.mode = "typecode" ->
            IF /\ cmd.dev \in LoopDevs
               /\ k.loops[cmd.dev] # None
               /\ cmd.num \in 1..Len(k.parts[cmd.dev])
            THEN 0 ELSE FailCode
      [] cmd.tool = "sgdisk" ->
            IF /\ cmd.dev \in LoopDevs
               /\ k.loops[cmd.dev] # None
               /\ cmd.num = Len(k.parts[cmd.dev]) + 1
            THEN 0 ELSE FailCode
      [] cmd.tool \in {"mkfs", "mkswap"} ->
            IF IsPart(cmd.dev) /\ DevExists(k, cmd.dev) THEN 0 ELSE FailCode
      [] cmd.tool = "mount" ->
            IF /\ IsPart(cmd.dev)
               /\ DevExists(k, cmd.dev)
               /\ k.parts[DiskOf(cmd.dev)][NumOf(cmd.dev)].fstype \notin {None, "swap"}
               /\ cmd.path \in k.dirs
               /\ \A i \in 1..Len(k.parts[DiskOf(cmd.dev)][NumOf(cmd.dev)].mounts) :
                      k.parts[DiskOf(cmd.dev)][NumOf(cmd.dev)].mounts[i] # cmd.path
            THEN 0 ELSE FailCode
      [] cmd.tool = "umount" ->
            IF IsMountpoint(k, cmd.path) THEN 0 ELSE NotFoundCode

\* The kernel state after cmd has run successfully.
Effect(k, cmd) ==
    CASE cmd.tool = "dd" ->
            [k EXCEPT !.files = (cmd.dev :> cmd.num) @@ @,
                      !.tables = [p \in DOMAIN @ \ {cmd.dev} |-> @[p]]]
      [] cmd.tool = "losetup" /\ cmd.mode = "attach" ->
            IF k.loops[FindLoop(k, cmd.dev)] = cmd.dev THEN k
            ELSE [k EXCEPT !.loops[FindLoop(k, cmd.dev)] = cmd.dev,
                           !.parts[FindLoop(k, cmd.dev)] =
                               IF cmd.dev \in DOMAIN k.tables
                               THEN k.tables[cmd.dev] ELSE <<>>]
      \* a device in use stays bound until its last mount is gone
      [] cmd.tool = "losetup" /\ cmd.mode = "detach" ->
            IF Busy(k, cmd.dev) THEN k
            ELSE [k EXCEPT !.tables = (k.loops[cmd.dev] :> k.parts[cmd.dev]) @@ @,
                           !.loops[cmd.dev] = None,
                           !.parts[cmd.dev] = <<>>]
      \* a partition made without a type code is a Linux filesystem
      [] cmd.tool = "sgdisk" /\ cmd.mode = "create" ->
            [k EXCEPT !.parts[cmd.dev] = Append(@, NewPart("8300"))]
      [] cmd.tool = "sgdisk" /\ cmd.mode = "typecode" ->
            [k EXCEPT !.parts[cmd.dev][cmd.num].typecode = cmd.arg]
      [] cmd.tool = "sgdisk" ->
            [k EXCEPT !.parts[cmd.dev] = Append(@, NewPart(cmd.arg))]
      [] cmd.tool = "mkfs" ->
            [k EXCEPT !.parts[DiskOf(cmd.dev)][NumOf(cmd.dev)].fstype = cmd.arg]
      [] cmd.tool = "mkswap" ->
            [k EXCEPT !.parts[DiskOf(cmd.dev)][NumOf(cmd.dev)].fstype = "swap"]
      [] cmd.tool = "mount" ->
            [k EXCEPT !.parts[DiskOf(cmd.dev)][NumOf(cmd.dev)].mounts = Append(@, cmd.path)]
      [] cmd.tool = "umount" ->
            [k EXCEPT !.parts[MountedAt(k, cmd.path).disk][MountedAt(k, cmd.path).num].mounts =
                          Without(@, cmd.path)]
      [] OTHER -> k

\* lsblk --output-all --json: the record of one device, with its partitions
\* under "children" (the key is absent when there are none).
PartRecord(k, disk, n) ==
    LET part == k.parts[disk][n] IN
    ("name" :> ShortName(PartPath(disk, n))) @@
    ("path" :> PartPath(disk, n)) @@
    ("type" :> "part") @@
    ("fstype" :> part.fstype) @@
    ("mountpoints" :> IF part.mounts = <<>> THEN <<NullMp>> ELSE part.mounts)

LsblkRecord(k, devpath) ==
    IF IsPart(devpath) THEN PartRecord(k, DiskOf(devpath), NumOf(devpath))
    ELSE LET base == ("name" :> ShortName(devpath)) @@
                     ("path" :> devpath) @@
                     ("type" :> "loop") @@
                     ("fstype" :> None) @@
                     ("mountpoints" :> <<NullMp>>)
         IN IF k.parts[devpath] = <<>> THEN base
            ELSE base @@ ("children" :>
                    [n \in 1..Len(k.parts[devpath]) |-> PartRecord(k, devpath, n)])

\* losetup --json --output-all --list: the record of one loop device.
LosetupRecord(k, devpath) ==
    ("name" :> devpath) @@ ("back-file" :> k.loops[devpath])

(***************************************************************************)
(* The context the methods thread through.                                 *)
(***************************************************************************)
\* The value of a call, named in what follows it.
Then(value, Rest(_)) == Rest(value)

NewCtx(k, tree, fault, rc) ==
    [k |-> k, cmds |-> <<>>, fault |-> fault, rc |-> rc, code |-> 0,
     failed |-> FALSE, late |-> 0, exc |-> None, tree |-> tree]

Raise(ctx, exc) == [ctx EXCEPT !.exc = exc]

\* subprocess.run(cmd): the process is started; it fails with the injected
\* code when the fault is due, else it does what the tool does.
Run(ctx, cmd) ==
    Then(IF ctx.fault = 1 THEN ctx.rc ELSE NaturalCode(ctx.k, cmd), LAMBDA code :
    [ctx EXCEPT !.cmds  = Append(@, cmd),
                !.fault = IF @ > 0 THEN @ - 1 ELSE 0,
                !.code  = code,
                !.failed = @ \/ code # 0,
                !.late  = IF ctx.failed THEN @ + 1 ELSE @,
                !.k     = IF code = 0 THEN Effect(@, cmd) ELSE @])

(***************************************************************************)
(* class BlockDevice: a node is [data, children]; data is the dict _data   *)
(* (a function from the keys present to their values), children the list   *)
(* _children.  A node of the tree is named by its position: <<>> is the    *)
(* root, <<i>> its i-th child, <<i, j>> that child's j-th child.           *)
(***************************************************************************)
EmptyNode == [data |-> <<>>, children |-> <<>>]

\* The identity keys without the kind of device.
IdentityKeys_loose == {"path", "back-file"}

IdentityKeys == {"path", "back-file", "type"}

RECURSIVE NodeAt(_, _)
NodeAt(tree, pos) ==
    IF pos = <<>> THEN tree ELSE NodeAt(tree.children[Head(pos)], Tail(pos))

RECURSIVE ReplaceAt(_, _, _)
ReplaceAt(tree, pos, node) ==
    IF pos = <<>> THEN node
    ELSE [tree EXCEPT !.children[Head(pos)] = ReplaceAt(@, Tail(pos), node)]

\* dict.get(key): None when the key is absent.
Get(node, key) == IF key \in DOMAIN node.data THEN node.data[key] ELSE None

\* The check at the head of update: an identity key present on both sides
\* with different values.
IdentityClash(data, kwargs) ==
    \E key \in IdentityKeys :
        /\ key \in DOMAIN kwargs
        /\ key \in DOMAIN data
        /\ kwargs[key] # data[key]

\* self._data.update(kwargs), "children" popped.
\* MergeData that keeps the values the node already holds.
MergeData_keep(data, kwargs) ==
    [key \in (DOMAIN data \cup DOMAIN kwargs) \ {"children"} |->
        IF key \in DOMAIN data THEN data[key] ELSE kwargs[key]]

MergeData(data, kwargs) ==
    [key \in (DOMAIN data \cup DOMAIN kwargs) \ {"children"} |->
        IF key \in DOMAIN kwargs THEN kwargs[key] ELSE data[key]]

RECURSIVE update(_, _)
RECURSIVE update_children(_, _, _)
RECURSIVE update_children_prepend(_, _, _)
RECURSIVE update_each(_, _, _)

\* BlockDevice.update(**kwargs) on node: [node, exc], node as the call left
\* it (an exception leaves what was already written).
update(node, kwargs) ==
    IF IdentityClash(node.data, kwargs)
    THEN [node |-> node, exc |-> "KeyError"]
    ELSE Then(update_each(IF "children" \in DOMAIN kwargs
                          THEN kwargs["children"] ELSE <<>>, 1, node.children),
              LAMBDA r :
              IF r.exc # None
              THEN [node |-> [node EXCEPT !.children = r.children], exc |-> r.exc]
              ELSE [node |-> [data     |-> MergeData(node.data, kwargs),
                              children |-> r.children],
                    exc  |-> None])

\* update_children that only updates the children already there.
update_children_noappend(obj, children, i) ==
    IF \E n \in i..Len(children) : children[n].data["path"] = obj["path"]
    THEN Then(CHOOSE n \in i..Len(children) :
                  /\ children[n].data["path"] = obj["path"]
                  /\ \A m \in i..(n - 1) : children[m].data["path"] # obj["path"],
              LAMBDA n :
              Then(update(children[n], obj), LAMBDA r :
              [children |-> [children EXCEPT ![n] = r.node], exc |-> r.exc]))
    ELSE [children |-> children, exc |-> None]

\* update_children that appends a child for every record, known or not.
update_children_append(obj, children, i) ==
    Then(update(EmptyNode, obj), LAMBDA r :
    IF r.exc # None THEN [children |-> children, exc |-> r.exc]
    ELSE [children |-> Append(children, r.node), exc |-> None])

\* update_children that puts a new child before the ones already there.
update_children_prepend(obj, children, i) ==
    IF i > Len(children)
    THEN Then(update(EmptyNode, obj), LAMBDA r :
         IF r.exc # None THEN [children |-> children, exc |-> r.exc]
         ELSE [children |-> <<r.node>> \o children, exc |-> None])
    ELSE IF children[i].data["path"] = obj["path"]
    THEN Then(update(children[i], obj), LAMBDA r :
         [children |-> [children EXCEPT ![i] = r.node], exc |-> r.exc])
    ELSE update_children_prepend(obj, children, i + 1)

\* update_children(obj, children), scanning from index i: the first child
\* with obj's path is updated; without one, a new child is appended.
update_children(obj, children, i) ==
    IF i > Len(children)
    THEN Then(update(EmptyNode, obj), LAMBDA r :
         IF r.exc # None THEN [children |-> children, exc |-> r.exc]
         ELSE [children |-> Append(children, r.node), exc |-> None])
    ELSE IF children[i].data["path"] = obj["path"]
    THEN Then(update(children[i], obj), LAMBDA r :
         [children |-> [children EXCEPT ![i] = r.node], exc |-> r.exc])
    ELSE update_children(obj, children, i + 1)

\* for child in children: update_children(child, self._children)
update_each(incoming, j, children) ==
    IF j > Len(incoming) THEN [children |-> children, exc |-> None]
    ELSE Then(update_children(incoming[j], children, 1), LAMBDA r :
         IF r.exc # None THEN r
         ELSE update_each(incoming, j + 1, r.children))

(***************************************************************************)
(* class _BlockDevice, _FileSystem, _LoopDevice: the command wrappers.     *)
(***************************************************************************)
\* _BlockDevice.list_one: the record is LsblkRecord(ctx.k, devpath).
list_one(ctx, devpath) ==
    IF ctx.exc # None THEN ctx
    ELSE Then(Run(ctx, LsblkCmd(devpath)), LAMBDA c :
         IF c.code = 0 THEN c
         ELSE IF c.code = NotFoundCode THEN Raise(c, "BlockDeviceNotFoundError")
         ELSE Raise(c, "CalledProcessError"))

\* _BlockDevice.partprobe
partprobe(ctx, devpath) ==
    IF ctx.exc # None THEN ctx
    ELSE Then(Run(ctx, PartprobeCmd(devpath)), LAMBDA c :
         IF c.code = 0 THEN c ELSE Raise(c, "BlockDeviceError"))

\* len(old_partitions), of the record dev of lsblk
\* CountPartitions that takes every device for an empty one.
CountPartitions_empty(dev) == 0

\* CountPartitions that tells only an empty device from one with partitions.
CountPartitions_some(dev) == IF "children" \in DOMAIN dev THEN 1 ELSE 0

CountPartitions(dev) ==
    IF "children" \in DOMAIN dev THEN Len(dev["children"]) ELSE 0

\* create_partition that rescans after the edit instead of before it.
create_partition_rescan_after(ctx, devpath, typecode) ==
    Then(list_one(ctx, devpath), LAMBDA c1 :
    IF c1.exc # None THEN c1
    ELSE Then(CountPartitions(LsblkRecord(c1.k, devpath)) + 1, LAMBDA new_part_num :
         Then(Run(c1, SgdiskCmd(devpath, new_part_num, typecode)), LAMBDA c2 :
         IF c2.code = 0 THEN partprobe(c2, devpath) ELSE Raise(c2, "BlockDeviceError"))))

\* _BlockDevice.create_partition
create_partition(ctx, devpath, typecode) ==
    Then(list_one(partprobe(ctx, devpath), devpath), LAMBDA c1 :
    IF c1.exc # None THEN c1
    ELSE Then(CountPartitions(LsblkRecord(c1.k, devpath)) + 1, LAMBDA new_part_num :
         Then(Run(c1, SgdiskCmd(devpath, new_part_num, typecode)), LAMBDA c2 :
         IF c2.code = 0 THEN c2 ELSE Raise(c2, "BlockDeviceError"))))

\* create that gives every type, swap too, to mkfs.
create_mkfs_only(ctx, devpath, fs_type) ==
    Then(list_one(ctx, devpath), LAMBDA c1 :
    IF c1.exc # None THEN c1
    ELSE IF LsblkRecord(c1.k, devpath)["fstype"] # None
    THEN Raise(c1, "FileExistsError")
    ELSE Then(Run(c1, MkfsCmd(devpath, fs_type)), LAMBDA c2 :
         IF c2.code = 0 THEN c2 ELSE Raise(c2, "FileSystemError")))

\* _FileSystem.create
create(ctx, devpath, fs_type) ==
    Then(list_one(ctx, devpath), LAMBDA c1 :
    IF c1.exc # None THEN c1
    ELSE IF LsblkRecord(c1.k, devpath)["fstype"] # None
    THEN Raise(c1, "FileExistsError")
    ELSE Then(Run(c1, IF fs_type = "swap" THEN MkswapCmd(devpath)
                      ELSE MkfsCmd(devpath, fs_type)), LAMBDA c2 :
         IF c2.code = 0 THEN c2 ELSE Raise(c2, "FileSystemError")))

\* _FileSystem.mount
mount(ctx, devpath, mountpoint) ==
    IF ctx.exc # None THEN ctx
    ELSE IF mountpoint \notin ctx.k.dirs THEN Raise(ctx, "FileNotFoundError")
    ELSE Then(list_one(ctx, devpath), LAMBDA c1 :
         IF c1.exc # None THEN c1
         ELSE Then(LsblkRecord(c1.k, devpath)["mountpoints"], LAMBDA mountpoints :
              IF \E i \in 1..Len(mountpoints) : mountpoints[i] = mountpoint
              THEN c1
              ELSE Then(Run(c1, MountCmd(devpath, mountpoint)), LAMBDA c2 :
                   IF c2.code = 0 THEN c2 ELSE Raise(c2, "FileSystemError"))))

\* _LoopDevice.attach: the loop device is FindLoop(ctx.k, path).
attach(ctx, path) ==
    IF ctx.exc # None THEN ctx
    ELSE Then(Run(ctx, AttachCmd(path)), LAMBDA c :
         IF c.code = 0 THEN c ELSE Raise(c, "LoopDeviceError"))

\* create_sparse without its check that the path is free.
create_sparse_overwrite(ctx, path, size) ==
    IF ctx.exc # None THEN ctx
    ELSE Then(Run(ctx, DdCmd(abspath(path), size)), LAMBDA c :
         IF c.code = 0 THEN attach(c, abspath(path))
         ELSE Raise(c, "CalledProcessError"))

\* _LoopDevice.create_sparse
create_sparse(ctx, path, size) ==
    IF ctx.exc # None THEN ctx
    ELSE IF Stat(ctx.k, abspath(path)) # "absent" THEN Raise(ctx, "FileExistsError")
    ELSE Then(Run(ctx, DdCmd(abspath(path), size)), LAMBDA c :
         IF c.code = 0 THEN attach(c, abspath(path))
         ELSE Raise(c, "CalledProcessError"))

\* DD.write_file (sysbuilder/shell.py), with convs=["sparse"]
write_file(ctx, output_file, count) ==
    IF ctx.exc # None THEN ctx
    ELSE IF Stat(ctx.k, abspath(output_file)) # "absent"
    THEN Raise(ctx, "FileExistsError")
    ELSE Then(Run(ctx, DdCmd(abspath(output_file), count)), LAMBDA c :
         IF c.code = 0 THEN c ELSE Raise(c, "CalledProcessError"))

\* The loop of _FileSystem.unmount_all_mounts, from the i-th mountpoint:
\* subprocess.run(["unmount", existing_mount]) finds no executable of that
\* name and raises FileNotFoundError before any process is started.
RECURSIVE unmount_each(_, _, _)
unmount_each(ctx, mountpoints, i) ==
    IF ctx.exc # None \/ i > Len(mountpoints) THEN ctx
    ELSE IF mountpoints[i] = NullMp THEN unmount_each(ctx, mountpoints, i + 1)
    ELSE IF UnmountCmd(mountpoints[i]).tool \notin Tools
    THEN Raise(ctx, "FileNotFoundError")
    ELSE Then(Run(ctx, UnmountCmd(mountpoints[i])), LAMBDA c :
         IF c.code = 0 THEN unmount_each(c, mountpoints, i + 1)
         ELSE Raise(c, "FileSystemError"))

\* _FileSystem.unmount_all_mounts
unmount_all_mounts(ctx, devpath) ==
    Then(list_one(ctx, devpath), LAMBDA c :
    IF c.exc # None THEN c
    ELSE unmount_each(c, LsblkRecord(c.k, devpath)["mountpoints"], 1))

\* _LoopDevice.detach
detach(ctx, devpath) ==
    IF ctx.exc # None THEN ctx
    ELSE Then(Run(ctx, DetachCmd(abspath(devpath))), LAMBDA c :
         IF c.code = 0 THEN c ELSE Raise(c, "LoopDeviceError"))

\* _LoopDevice.list_one: the record is LosetupRecord(ctx.k, devpath).
loop_list_one(ctx, devpath) ==
    IF ctx.exc # None THEN ctx
    ELSE Then(Run(ctx, LoopListCmd(devpath)), LAMBDA c :
         IF c.code = 0 THEN c ELSE Raise(c, "LoopDeviceError"))

(***************************************************************************)
(* sysbuilder/shell.py: the wrappers that check the kind of file they are  *)
(* given.                                                                  *)
(***************************************************************************)
\* if stat.S_ISBLK(os.stat(devpath).st_mode) == 0: raise ValueError
BlockCheck(ctx, devpath) ==
    IF ctx.exc # None THEN ctx
    ELSE IF Stat(ctx.k, devpath) = "absent" THEN Raise(ctx, "FileNotFoundError")
    ELSE IF Stat(ctx.k, devpath) # "blk" THEN Raise(ctx, "ValueError")
    ELSE ctx

\* _Shell.run: subprocess.run(cmd, check=True)
ShellRun(ctx, cmd) ==
    IF ctx.exc # None THEN ctx
    ELSE Then(Run(ctx, cmd), LAMBDA c :
         IF c.code = 0 THEN c ELSE Raise(c, "CalledProcessError"))

\* Lsblk.list_one
Lsblk_list_one(ctx, devpath) == ShellRun(BlockCheck(ctx, devpath), LsblkCmd(devpath))

\* PartProbe.probe_device
PartProbe_probe_device(ctx, devpath) ==
    ShellRun(BlockCheck(ctx, devpath), PartprobeCmd(devpath))

\* SGDisk.create_partition
SGDisk_create_partition(ctx, devpath, part_number) ==
    ShellRun(BlockCheck(ctx, devpath), SgdiskNewCmd(devpath, part_number))

\* SGDisk.set_partition_type
SGDisk_set_partition_type(ctx, devpath, part_number, typecode) ==
    ShellRun(BlockCheck(ctx, devpath), SgdiskTypeCmd(devpath, part_number, typecode))

\* Mkfs.create
Mkfs_create(ctx, devpath, fstype) ==
    Then(Lsblk_list_one(ctx, devpath), LAMBDA c :
    IF c.exc # None THEN c
    ELSE IF LsblkRecord(c.k, devpath)["fstype"] # None THEN Raise(c, "FileExistsError")
    ELSE ShellRun(c, MkfsCmd(devpath, fstype)))

\* Mkswap.create
Mkswap_create(ctx, devpath) ==
    Then(Lsblk_list_one(ctx, devpath), LAMBDA c :
    IF c.exc # None THEN c
    ELSE IF LsblkRecord(c.k, devpath)["fstype"] # None THEN Raise(c, "FileExistsError")
    ELSE ShellRun(c, MkswapCmd(devpath)))

\* Losetup.attach: the command is given no file.
Losetup_attach(ctx, fp) ==
    IF ctx.exc # None THEN ctx
    ELSE IF Stat(ctx.k, abspath(fp)) = "absent" THEN Raise(ctx, "FileNotFoundError")
    ELSE IF Stat(ctx.k, abspath(fp)) = "blk" THEN Raise(ctx, "ValueError")
    ELSE ShellRun(ctx, FindCmd)

\* Losetup.identify
Losetup_identify(ctx, fp) ==
    IF ctx.exc # None THEN ctx
    ELSE IF Stat(ctx.k, abspath(fp)) = "absent" THEN Raise(ctx, "ValueError")
    ELSE ShellRun(ctx, AttachCmd(abspath(fp)))

\* Losetup.detach: the device must be gone from lsblk afterwards.
Losetup_detach(ctx, fp) ==
    Then(ShellRun(BlockCheck(ctx, abspath(fp)), DetachCmd(abspath(fp))), LAMBDA c1 :
    IF c1.exc # None THEN c1
    ELSE Then(Lsblk_list_one(c1, abspath(fp)), LAMBDA c2 :
         IF c2.exc = None THEN Raise(c2, "FileExistsError")
         ELSE IF c2.exc = "CalledProcessError" THEN Raise(c2, None)
         ELSE c2))

\* Losetup.list_one
Losetup_list_one(ctx, devpath) ==
    ShellRun(BlockCheck(ctx, abspath(devpath)), LoopListCmd(abspath(devpath)))

\* Mount.mount
Mount_mount(ctx, devpath, mountpoint) == ShellRun(ctx, MountCmd(devpath, mountpoint))

\* Umount.umount
Umount_umount(ctx, mountpoint) == ShellRun(ctx, UmountCmd(mountpoint))

(***************************************************************************)
(* BlockDevice methods, on the node at position pos of ctx.tree.           *)
(***************************************************************************)
\* BlockDevice.sync
sync(ctx, pos) ==
    IF ctx.exc # None THEN ctx
    ELSE Then(NodeAt(ctx.tree, pos), LAMBDA node :
         IF "path" \notin DOMAIN node.data THEN Raise(ctx, "KeyError")
         ELSE Then(list_one(ctx, node.data["path"]), LAMBDA c :
              IF c.exc # None THEN c
              ELSE Then(update(node, LsblkRecord(c.k, node.data["path"])), LAMBDA r :
                   [c EXCEPT !.tree = ReplaceAt(@, pos, r.node), !.exc = r.exc])))

\* add_filesystem without its check of the filesystem already there.
add_filesystem_unguarded(ctx, pos, fs_type) ==
    Then(sync(ctx, pos), LAMBDA c1 :
    IF c1.exc # None THEN c1
    ELSE sync(create(c1, NodeAt(c1.tree, pos).data["path"], fs_type), pos))

\* add_filesystem that starts the creation tool itself, whatever the
\* device holds.
add_filesystem_forced(ctx, pos, fs_type) ==
    Then(sync(ctx, pos), LAMBDA c1 :
    IF c1.exc # None THEN c1
    ELSE Then(Run(c1, IF fs_type = "swap" THEN MkswapCmd(NodeAt(c1.tree, pos).data["path"])
                      ELSE MkfsCmd(NodeAt(c1.tree, pos).data["path"], fs_type)), LAMBDA c2 :
         IF c2.code = 0 THEN sync(c2, pos) ELSE Raise(c2, "FileSystemError")))

\* BlockDevice.add_filesystem
add_filesystem(ctx, pos, fs_type) ==
    Then(sync(ctx, pos), LAMBDA c1 :
    IF c1.exc # None THEN c1
    ELSE IF Get(NodeAt(c1.tree, pos), "fstype") # None
    THEN Raise(c1, "BlockDeviceError")
    ELSE sync(create(c1, NodeAt(c1.tree, pos).data["path"], fs_type), pos))

\* add_part that tries the partition a second time when it fails.
add_part_retry(ctx, pos, typecode) ==
    Then(sync(ctx, pos), LAMBDA c1 :
    IF c1.exc # None THEN c1
    ELSE IF NodeAt(c1.tree, pos).data["type"] \notin {"disk", "loop"}
    THEN Raise(c1, "BlockDeviceError")
    ELSE Then(create_partition(c1, NodeAt(c1.tree, pos).data["path"], typecode), LAMBDA c2 :
         IF c2.exc = None THEN sync(c2, pos)
         ELSE sync(create_partition(Raise(c2, None), NodeAt(c1.tree, pos).data["path"],
                                    typecode), pos)))

\* add_part without its check of the kind of device.
add_part_unchecked(ctx, pos, typecode) ==
    Then(sync(ctx, pos), LAMBDA c1 :
    IF c1.exc # None THEN c1
    ELSE sync(create_partition(c1, NodeAt(c1.tree, pos).data["path"], typecode), pos))

\* BlockDevice.add_part
add_part(ctx, pos, typecode) ==
    Then(sync(ctx, pos), LAMBDA c1 :
    IF c1.exc # None THEN c1
    ELSE IF NodeAt(c1.tree, pos).data["type"] \notin {"disk", "loop"}
    THEN Raise(c1, "BlockDeviceError")
    ELSE sync(create_partition(c1, NodeAt(c1.tree, pos).data["path"], typecode), pos))

\* BlockDevice.probe
probe(ctx, pos) ==
    IF ctx.exc # None THEN ctx
    ELSE IF NodeAt(ctx.tree, pos).data["type"] \notin {"disk", "loop"}
    THEN Raise(ctx, "BlockDeviceError")
    ELSE sync(partprobe(ctx, NodeAt(ctx.tree, pos).data["path"]), pos)

\* BlockDevice.unmount: the children in order, then the node itself.
RECURSIVE unmount(_, _)
RECURSIVE unmount_children(_, _, _)
unmount(ctx, pos) ==
    Then(unmount_children(ctx, pos, 1), LAMBDA c :
    IF c.exc # None THEN c
    ELSE unmount_all_mounts(c, NodeAt(c.tree, pos).data["path"]))

unmount_children(ctx, pos, i) ==
    IF ctx.exc # None \/ i > Len(NodeAt(ctx.tree, pos).children) THEN ctx
    ELSE unmount_children(unmount(ctx, Append(pos, i)), pos, i + 1)

\* BlockDevice.close: the class defines no attribute of that name, the
\* lookup raises AttributeError.
close(ctx, pos) ==
    IF ctx.exc # None THEN ctx ELSE Raise(ctx, "AttributeError")

\* BlockDevice.back_path
back_path(node) ==
    IF node.data["type"] = "loop" THEN node.data["back-file"] ELSE node.data["path"]

(***************************************************************************)
(* BlockDevice.as_image_file: the size string, a sequence of characters,   *)
(* is turned into a number of 1-MiB blocks.                                *)
(***************************************************************************)
Digits == {"0", "1", "2", "3", "4", "5", "6", "7", "8", "9"}

DigitVal(c) ==
    CASE c = "0" -> 0 [] c = "1" -> 1 [] c = "2" -> 2 [] c = "3" -> 3
      [] c = "4" -> 4 [] c = "5" -> 5 [] c = "6" -> 6 [] c = "7" -> 7
      [] c = "8" -> 8 [] c = "9" -> 9

\* int(s) for a string of decimal digits.
RECURSIVE ParseInt(_)
ParseInt(s) ==
    IF Len(s) = 1 THEN DigitVal(s[1])
    ELSE 10 * ParseInt(SubSeq(s, 1, Len(s) - 1)) + DigitVal(s[Len(s)])

\* Can int(s) parse s?
IsInt(s) == Len(s) > 0 /\ \A i \in 1..Len(s) : s[i] \in Digits

Kibi == 1024

\* The if/elif chain on the suffix: the factor, 0 when no branch is taken.
\* The suffixes read as powers of 1000.
SuffixFactor_decimal(c) ==
    CASE c \in {"M", "m"} -> 1
      [] c \in {"G", "g"} -> 1000
      [] c \in {"T", "t"} -> 1000 * 1000
      [] c \in {"P", "p"} -> 1000 * 1000 * 1000
      [] OTHER -> 0

SuffixFactor(c) ==
    CASE c \in {"M", "m"} -> 1
      [] c \in {"G", "g"} -> Kibi
      [] c \in {"T", "t"} -> Kibi * Kibi
      [] c \in {"P", "p"} -> Kibi * Kibi * Kibi
      [] OTHER -> 0

\* msize, or the exception the chain ends in.
ParseSize(size) ==
    LET suffix == size[Len(size)]
        number == SubSeq(size, 1, Len(size) - 1)
    IN IF Len(size) = 0 \/ SuffixFactor(suffix) = 0
       THEN [msize |-> 0, exc |-> "UnboundLocalError"]
       ELSE IF ~IsInt(number)
       THEN [msize |-> 0, exc |-> "ValueError"]
       ELSE [msize |-> ParseInt(number) * SuffixFactor(suffix), exc |-> None]

\* BlockDevice.as_image_file: ctx.tree is the new BlockDevice.
as_image_file(ctx, path, size) ==
    Then(ParseSize(size), LAMBDA parsed :
    IF parsed.exc # None THEN Raise(ctx, parsed.exc)
    ELSE Then(create_sparse(ctx, path, parsed.msize), LAMBDA c1 :
    IF c1.exc # None THEN c1
    ELSE Then(FindLoop(c1.k, abspath(path)), LAMBDA loopdev :
    Then(list_one(c1, loopdev), LAMBDA c2 :
    IF c2.exc # None THEN c2
    ELSE Then(update(EmptyNode, LsblkRecord(c2.k, loopdev)), LAMBDA r1 :
    IF r1.exc # None THEN Raise(c2, r1.exc)
    ELSE Then(loop_list_one(c2, loopdev), LAMBDA c3 :
    IF c3.exc # None THEN c3
    ELSE Then(update(r1.node, LosetupRecord(c3.k, loopdev)), LAMBDA r2 :
    [c3 EXCEPT !.tree = r2.node, !.exc = r2.exc])))))))

(***************************************************************************)
(* class Config: the schema's pattern for the size, "[0-9]+[MGTP]", is     *)
(* searched for anywhere in the string; the path is made absolute.         *)
(***************************************************************************)
SizePattern(size) ==
    \E i \in 1..(Len(size) - 1) :
        size[i] \in Digits /\ size[i + 1] \in {"M", "G", "T", "P"}

\* Config._validate: the validated configuration, or the exception raised.
validate(cfg) ==
    IF "size" \in DOMAIN cfg.disk /\ ~SizePattern(cfg.disk.size)
    THEN [cfg |-> cfg, exc |-> "ValidationError"]
    ELSE IF cfg.disk.type \in {"sparse", "raw"} /\ "size" \notin DOMAIN cfg.disk
    THEN [cfg |-> [cfg EXCEPT !.disk.path = abspath(@)], exc |-> "KeyError"]
    ELSE [cfg |-> [cfg EXCEPT !.disk.path = abspath(@)], exc |-> None]

\* Config._validate_storage, for a physical disk: Lsblk.list_one(path)
validate_physical(ctx, cfg) ==
    IF cfg.disk.type = "physical" THEN Lsblk_list_one(ctx, cfg.disk.path) ELSE ctx

(***************************************************************************)
(* class Storage.                                                          *)
(***************************************************************************)
\* Storage.__init__: whatever the type of the disk, the device is made
\* by BlockDevice.as_image_file from the path and the size.
storage_init(ctx, cfg) ==
    IF ctx.exc # None THEN ctx
    ELSE IF "size" \notin DOMAIN cfg.disk THEN Raise(ctx, "KeyError")
    ELSE as_image_file(ctx, cfg.disk.path, cfg.disk.size)

\* The inner loop of format: child.add_filesystem for every child, from i.
RECURSIVE format_children(_, _, _)
format_children(ctx, i, fs_type) ==
    IF ctx.exc # None \/ i > Len(ctx.tree.children) THEN ctx
    ELSE format_children(add_filesystem(ctx, <<i>>, fs_type), i + 1, fs_type)

\* Storage.format: the loop over the layout, from entry j.
RECURSIVE format(_, _, _)
format(ctx, layout, j) ==
    IF ctx.exc # None \/ j > Len(layout) THEN ctx
    ELSE format(
            format_children(add_part(ctx, <<>>, layout[j].typecode), 1,
                            layout[j].filesystem.type),
            layout, j + 1)

\* Storage.close: the class defines no attribute of that name, the lookup
\* raises AttributeError.
storage_close(ctx) ==
    IF ctx.exc # None THEN ctx ELSE Raise(ctx, "AttributeError")

\* Storage.mount: the body is its docstring alone; nothing is run, nothing
\* is written, None is returned.
storage_mount(ctx) == ctx

(***************************************************************************)
(* Inputs: configurations, positions, injected faults.                     *)
(***************************************************************************)
Entry(typecode, fs_type, mountpoint) ==
    [typecode |-> typecode, filesystem |-> [type |-> fs_type, mountpoint |-> mountpoint]]

Entries ==
    { Entry("ef00", "vfat", <<"/", "a">>),
      Entry("8200", "swap", SwapMp),
      Entry("8300", "ext4", <<"/">>),
      Entry("8300", "ext4", <<"/", "a", "/", "b">>) }

\* Layouts of at most MaxParts entries, no entry twice.
Layouts ==
    UNION {{l \in [1..n -> Entries] : \A i, j \in 1..n : l[i] = l[j] => i = j} :
           n \in 1..MaxParts}

DefaultSize == <<"3", "2", "G">>

\* Sizes of every suffix, one the schema rejects ("16K") and two it lets
\* through although as_image_file cannot read them ("1Mk", "1MG").
Sizes ==
    { DefaultSize, <<"1", "M">>, <<"2", "T">>, <<"1", "P">>,
      <<"1", "6", "K">>, <<"1", "M", "k">>, <<"1", "M", "G">> }

OneEntry == [i \in 1..1 |-> Entry("8300", "ext4", <<"/">>)]

Cfg(path, size, layout) ==
    [disk |-> [path |-> path, size |-> size, type |-> "sparse"], layout |-> layout]

DefaultPath == "/img/a"

\* Configurations that vary the layout, and configurations that vary the
\* image path and the size.
LayoutConfigs == {Cfg(DefaultPath, DefaultSize, l) : l \in Layouts}
DiskConfigs   == {Cfg(p, sz, OneEntry) : p \in RawPaths, sz \in Sizes}
RetryConfigs  == {Cfg(p, DefaultSize, OneEntry) : p \in RawPaths}

\* Descriptors of the other types: a raw image, and a physical disk (a
\* block device of the host) with and without a size.
RawConfigs == {[Cfg(p, DefaultSize, OneEntry) EXCEPT !.disk.type = "raw"] : p \in RawPaths}
PhysicalConfigs ==
    {[Cfg(d, DefaultSize, OneEntry) EXCEPT !.disk.type = "physical"] : d \in LoopDevs}
    \cup {[disk |-> [path |-> d, type |-> "physical"], layout |-> OneEntry] : d \in LoopDevs}

NoFault == [fault |-> 0, rc |-> 0]

\* The fault-th process fails; lsblk's exit code is one of ExitCodes, the
\* other tools fail with FailCode.
Faults     == {NoFault} \cup [fault : 1..MaxFault, rc : {FailCode}]
LsblkFault == {NoFault} \cup [fault : {1}, rc : ExitCodes]

NoStorage == [live |-> FALSE, cfg |-> Cfg("", <<>>, <<>>), device |-> EmptyNode]

\* Positions of the nodes of the Storage's device tree: root and children.
Positions == {<<>>} \cup {<<i>> : i \in 1..Len(storage.device.children)}

TheLoop == CHOOSE d \in LoopDevs : TRUE

NumParts == Len(kernel.parts[TheLoop])

Ctx0(f) == NewCtx(kernel, storage.device, f.fault, f.rc)

\* The record of a call: name, node, argument, exception raised, exit
\* code of lsblk (for list_one), whether some process failed and whether
\* the call began on a device without partitions.
Last(op, pos, arg, ctx) ==
    [op |-> op, pos |-> pos, arg |-> arg, exc |-> ctx.exc,
     code |-> IF op = "list_one" THEN ctx.code ELSE 0,
     failed |-> ctx.failed,
     late |-> ctx.late,
     fresh |-> NumParts = 0 /\ storage.device.children = <<>>]

Idle == [op |-> "idle", pos |-> <<>>, arg |-> <<>>, exc |-> None, code |-> 0,
         failed |-> FALSE, late |-> 0, fresh |-> FALSE]

\* The operation ends: the kernel, the object graph, the processes it
\* started and its outcome are what ctx says.
Finish(op, pos, arg, ctx) ==
    /\ kernel' = ctx.k
    /\ storage' = [storage EXCEPT !.device = ctx.tree]
    /\ cmds' = ctx.cmds
    /\ last' = Last(op, pos, arg, ctx)
    /\ UNCHANGED actors

\* cmds and last describe one call: they are cleared before the next.
Active == last.op = "idle"

\* Two callers of _BlockDevice.create_partition on the same device (two
\* threads, or two processes of the builder).  A caller is outside the
\* function or at one of its statements, with the number it computed, the
\* exception it left with, and whether the other caller was inside the
\* function when it entered.
Actors == {"first", "second"}

Outside == [pc |-> "outside", num |-> 0, exc |-> None, overlapped |-> FALSE]

(***************************************************************************)
(* Operations.                                                             *)
(***************************************************************************)
Init ==
    /\ kernel = KernelInit
    /\ storage = NoStorage
    /\ cmds = <<>>
    /\ last = Idle
    /\ actors = [a \in Actors |-> Outside]

\* Config(cfg) validates, Storage(...) makes the device.
Built(cfg, f) ==
    \E valid \in {validate(cfg)} :
    \E ctx \in {IF valid.exc # None THEN Raise(Ctx0(f), valid.exc)
                ELSE storage_init(validate_physical(Ctx0(f), valid.cfg), valid.cfg)} :
        /\ kernel' = ctx.k
        /\ storage' = IF ctx.exc # None THEN storage
                      ELSE [live |-> TRUE, cfg |-> valid.cfg, device |-> ctx.tree]
        /\ cmds' = ctx.cmds
        /\ last' = Last("Storage", <<>>, cfg, ctx)
        /\ UNCHANGED actors

\* Storage(storage=Config(cfg).get("storage"))
Construct(configs, faults) ==
    /\ Active
    /\ \E cfg \in IF storage.live THEN RetryConfigs ELSE configs, f \in faults :
        Built(cfg, f)

\* Storage(storage=Config(cfg).get("storage")), cfg of type raw or physical
ConstructTyped(faults) ==
    /\ Active
    /\ \E cfg \in RawConfigs \cup PhysicalConfigs, f \in faults :
        Built(cfg, f)

\* Storage.format()
Format(faults) ==
    /\ Active
    /\ storage.live
    /\ NumParts + Len(storage.cfg.layout) <= MaxParts
    /\ \E f \in faults :
        Finish("format", <<>>, <<>>, format(Ctx0(f), storage.cfg.layout, 1))

\* Storage.mount()
Mount(faults) ==
    /\ Active
    /\ storage.live
    /\ \E f \in faults :
        Finish("mount", <<>>, <<>>, storage_mount(Ctx0(f)))

\* The typecode and the filesystem type the layout declares for the
\* i-th partition (those of a Linux filesystem beyond the layout).
DeclaredCode(i) ==
    IF i <= Len(storage.cfg.layout) THEN storage.cfg.layout[i].typecode ELSE "8300"

DeclaredType(i) ==
    IF i <= Len(storage.cfg.layout) THEN storage.cfg.layout[i].filesystem.type
    ELSE "ext4"

\* node.add_part(start, end, typecode), for the next partition
AddPart(positions, faults) ==
    /\ Active
    /\ storage.live
    /\ NumParts < MaxParts
    /\ \E pos \in positions, f \in faults :
        Finish("add_part", pos, DeclaredCode(NumParts + 1),
               add_part(Ctx0(f), pos, DeclaredCode(NumParts + 1)))

\* child.add_filesystem(fs_type)
AddFilesystem(types, faults) ==
    /\ Active
    /\ storage.live
    /\ \E pos \in Positions \ {<<>>}, fs_type \in types, f \in faults :
        Finish("add_filesystem", pos, fs_type, add_filesystem(Ctx0(f), pos, fs_type))

\* child.add_filesystem(fs_type) with the type the layout declares
AddDeclaredFilesystem(faults) ==
    /\ Active
    /\ storage.live
    /\ \E pos \in Positions \ {<<>>}, f \in faults :
        Finish("add_filesystem", pos, DeclaredType(pos[1]),
               add_filesystem(Ctx0(f), pos, DeclaredType(pos[1])))

\* node.probe()
Probe(faults) ==
    /\ Active
    /\ storage.live
    /\ \E pos \in Positions, f \in faults :
        Finish("probe", pos, <<>>, probe(Ctx0(f), pos))

\* node.sync()
Sync(faults) ==
    /\ Active
    /\ storage.live
    /\ \E pos \in Positions, f \in faults :
        Finish("sync", pos, <<>>, sync(Ctx0(f), pos))

\* _BlockDevice.list_one(devpath)
ListOne(faults) ==
    /\ Active
    /\ \E devpath \in LoopDevs \cup PartPaths, f \in faults :
        Finish("list_one", <<>>, devpath, list_one(Ctx0(f), devpath))

\* DD.write_file(input_file="/dev/zero", output_file, count, convs=["sparse"])
WriteFile(faults) ==
    /\ Active
    /\ \E path \in RawPaths, f \in faults :
        Finish("write_file", <<>>, path, write_file(Ctx0(f), path, ParseSize(DefaultSize).msize))

\* Records a caller may hand to update: of a partition, and of a whole
\* device with the records of its partitions; any of them may disagree
\* with what the node holds.
ChildRecords ==
    { ("path" :> p) @@ ("type" :> t) @@ ("fstype" :> "ext4") :
        p \in {PartPath(TheLoop, n) : n \in 1..2}, t \in {"part", "disk"} }

ChildSeqs == UNION {[1..n -> ChildRecords] : n \in 0..MaxIncoming}

WithChildren(rec, cs) == IF cs = <<>> THEN rec ELSE rec @@ ("children" :> cs)

WithBackFile(rec, b) == IF b = None THEN rec ELSE rec @@ ("back-file" :> b)

RootRecords ==
    { WithBackFile(WithChildren(("path" :> p) @@ ("type" :> t), cs), b) :
        p \in LoopDevs \cup {"/dev/loop1"}, t \in {"loop", "disk"},
        cs \in ChildSeqs, b \in ImgPaths \cup {None} }

\* node.update(**record)
Update ==
    /\ Active
    /\ storage.live
    /\ \E pos \in Positions :
         \E record \in IF pos = <<>> THEN RootRecords ELSE ChildRecords :
            \E r \in {update(NodeAt(storage.device, pos), record)} :
                Finish("update", pos, record,
                       [Ctx0(NoFault) EXCEPT !.tree = ReplaceAt(@, pos, r.node),
                                             !.exc = r.exc])

\* What the calls of sysbuilder/shell.py are given: device nodes bound and
\* unbound, partitions there or not, the image and a name nothing has.
ShellPaths ==
    LoopDevs \cup {PartPath(TheLoop, n) : n \in 1..2} \cup {DefaultPath} \cup RelPaths

ShellMountpoint == <<"/", "m">>

ShellFaults == {NoFault} \cup [fault : {1}, rc : {FailCode}]

\* os.makedirs(mountpoint), by the caller
Mkdir ==
    /\ Active
    /\ ShellMountpoint \notin kernel.dirs
    /\ kernel' = [kernel EXCEPT !.dirs = @ \cup {ShellMountpoint}]
    /\ UNCHANGED <<storage, cmds, last, actors>>

\* Lsblk.list_one(devpath)
LsblkListOne ==
    /\ Active
    /\ \E devpath \in ShellPaths, f \in ShellFaults :
        Finish("Lsblk.list_one", <<>>, devpath, Lsblk_list_one(Ctx0(f), devpath))

\* PartProbe.probe_device(devpath)
ProbeDevice ==
    /\ Active
    /\ \E devpath \in ShellPaths, f \in ShellFaults :
        Finish("PartProbe.probe_device", <<>>, devpath,
               PartProbe_probe_device(Ctx0(f), devpath))

\* SGDisk.create_partition(devpath, part_number, "", "")
CreatePartition ==
    /\ Active
    /\ NumParts < MaxShellParts
    /\ \E devpath \in ShellPaths, f \in ShellFaults :
        Finish("SGDisk.create_partition", <<>>, devpath,
               SGDisk_create_partition(Ctx0(f), devpath, NumParts + 1))

\* SGDisk.set_partition_type(devpath, part_number, "8300")
SetPartitionType ==
    /\ Active
    /\ \E devpath \in ShellPaths, n \in 1..MaxShellParts, f \in ShellFaults :
        Finish("SGDisk.set_partition_type", <<>>, devpath,
               SGDisk_set_partition_type(Ctx0(f), devpath, n, "8300"))

\* Mkfs.create(devpath, "ext4")
MkfsCreate ==
    /\ Active
    /\ \E devpath \in ShellPaths, f \in ShellFaults :
        Finish("Mkfs.create", <<>>, devpath, Mkfs_create(Ctx0(f), devpath, "ext4"))

\* Mkswap.create(devpath)
MkswapCreate ==
    /\ Active
    /\ \E devpath \in ShellPaths, f \in ShellFaults :
        Finish("Mkswap.create", <<>>, devpath, Mkswap_create(Ctx0(f), devpath))

\* Losetup.attach(fp)
LosetupAttach ==
    /\ Active
    /\ \E fp \in ShellPaths, f \in ShellFaults :
        Finish("Losetup.attach", <<>>, fp, Losetup_attach(Ctx0(f), fp))

\* Losetup.identify(fp)
LosetupIdentify ==
    /\ Active
    /\ \E fp \in ShellPaths, f \in ShellFaults :
        Finish("Losetup.identify", <<>>, fp, Losetup_identify(Ctx0(f), fp))

\* Losetup.detach(fp)
LosetupDetach ==
    /\ Active
    /\ \E fp \in ShellPaths, f \in ShellFaults :
        Finish("Losetup.detach", <<>>, fp, Losetup_detach(Ctx0(f), fp))

\* Losetup.list_one(devpath)
LosetupListOne ==
    /\ Active
    /\ \E devpath \in ShellPaths, f \in ShellFaults :
        Finish("Losetup.list_one", <<>>, devpath, Losetup_list_one(Ctx0(f), devpath))

\* Mount.mount(devpath, mountpoint)
ShellMount ==
    /\ Active
    /\ \E devpath \in ShellPaths, f \in ShellFaults :
        Finish("Mount.mount", <<>>, devpath,
               Mount_mount(Ctx0(f), devpath, ShellMountpoint))

\* Umount.umount(mountpoint)
ShellUmount(faults) ==
    /\ Active
    /\ \E f \in faults :
        Finish("Umount.umount", <<>>, ShellMountpoint,
               Umount_umount(Ctx0(f), ShellMountpoint))

\* _FileSystem.mount(devpath, mountpoint), of a partition of the model
FsMount(faults) ==
    /\ Active
    /\ storage.live
    /\ \E pos \in Positions \ {<<>>}, f \in faults :
        Finish("fs_mount", pos, ShellMountpoint,
               mount(Ctx0(f), NodeAt(storage.device, pos).data["path"], ShellMountpoint))

\* node.unmount()
Unmount(faults) ==
    /\ Active
    /\ storage.live
    /\ \E pos \in Positions, f \in faults :
        Finish("unmount", pos, <<>>, unmount(Ctx0(f), pos))

\* _LoopDevice.detach(devpath), of the device of the model
Detach(faults) ==
    /\ Active
    /\ storage.live
    /\ \E f \in faults :
        Finish("detach", <<>>, storage.device.data["path"],
               detach(Ctx0(f), storage.device.data["path"]))

\* node.close()
Close ==
    /\ Active
    /\ storage.live
    /\ \E pos \in Positions :
        Finish("close", pos, <<>>, close(Ctx0(NoFault), pos))

\* Storage.close(), as VDI.close calls it
StorageClose ==
    /\ Active
    /\ storage.live
    /\ Finish("Storage.close", <<>>, <<>>, storage_close(Ctx0(NoFault)))

\* The caller has the result of the call.
Return ==
    /\ ~Active
    /\ last' = Idle
    /\ cmds' = <<>>
    /\ UNCHANGED <<kernel, storage, actors>>

(***************************************************************************)
(* Spec: the device API on one image, every call with injected faults.     *)
(***************************************************************************)
DefaultConfig == Cfg(DefaultPath, DefaultSize, OneEntry)

Next ==
    \/ Construct({DefaultConfig}, {NoFault})
    \/ Format(Faults)
    \/ AddPart(Positions, Faults)
    \/ AddFilesystem(FsTypes, Faults)
    \/ Probe(Faults)
    \/ Sync(LsblkFault)
    \/ ListOne(LsblkFault)
    \/ Return

Spec == Init /\ [][Next]_vars

(***************************************************************************)
(* SpecImage: creation of the backing device, for every path and size.     *)
(***************************************************************************)
NextImage ==
    \/ Construct(DiskConfigs, Faults)
    \/ ConstructTyped(Faults)
    \/ WriteFile(Faults)
    \/ Sync(LsblkFault)
    \/ Return

SpecImage == Init /\ [][NextImage]_vars

(***************************************************************************)
(* SpecStorage: the orchestrator on every layout; partitions are also made *)
(* and formatted one by one, as the layout declares them.                  *)
(***************************************************************************)
NextStorage ==
    \/ Construct(LayoutConfigs, {NoFault})
    \/ Format(Faults)
    \/ AddPart({<<>>}, {NoFault})
    \/ AddDeclaredFilesystem({NoFault})
    \/ Mount({NoFault})
    \/ Return

SpecStorage == Init /\ [][NextStorage]_vars

(***************************************************************************)
(* SpecUpdate: the device tree under sync and under update with records    *)
(* of any content.                                                         *)
(***************************************************************************)
NextUpdate ==
    \/ Construct({DefaultConfig}, {NoFault})
    \/ AddPart({<<>>}, {NoFault})
    \/ Sync(LsblkFault)
    \/ Update
    \/ Return

SpecUpdate == Init /\ [][NextUpdate]_vars

(***************************************************************************)
(* SpecShell: the wrappers of sysbuilder/shell.py on one image, given      *)
(* every kind of path.                                                     *)
(***************************************************************************)
NextShell ==
    \/ Construct({DefaultConfig}, {NoFault})
    \/ Mkdir
    \/ LsblkListOne
    \/ ProbeDevice
    \/ CreatePartition
    \/ SetPartitionType
    \/ MkfsCreate
    \/ MkswapCreate
    \/ LosetupAttach
    \/ LosetupIdentify
    \/ LosetupDetach
    \/ LosetupListOne
    \/ ShellMount
    \/ ShellUmount(ShellFaults)
    \/ Return

SpecShell == Init /\ [][NextShell]_vars

(***************************************************************************)
(* SpecTeardown: partitions are made, formatted and mounted, then the      *)
(* device is unmounted, detached and closed.                               *)
(***************************************************************************)
NextTeardown ==
    \/ Construct({DefaultConfig}, {NoFault})
    \/ AddPart({<<>>}, {NoFault})
    \/ AddFilesystem({"ext4"}, {NoFault})
    \/ Mkdir
    \/ FsMount({NoFault})
    \/ Unmount({NoFault})
    \/ ShellUmount({NoFault})
    \/ Detach(ShellFaults)
    \/ Close
    \/ StorageClose
    \/ Return

SpecTeardown == Init /\ [][NextTeardown]_vars

(***************************************************************************)
(* Properties.                                                             *)
(***************************************************************************)
Root == storage.device

Layout == storage.cfg.layout

\* C2: for a freshly created backing device and any layout of N >= 1
\* entries, Storage.format() completes and leaves the root device with
\* exactly N children (no external process failing).
C2_FormatYieldsNChildren ==
    (last.op = "format" /\ last.fresh /\ ~last.failed) =>
        /\ last.exc = None
        /\ Len(Root.children) = Len(Layout)

\* C3: after Storage.format() on a fresh device, the i-th child of the
\* root has the filesystem type the i-th layout entry declares, for every
\* i in 1..N (no external process failing).
C3_FormatTypesInOrder ==
    (last.op = "format" /\ last.fresh /\ ~last.failed) =>
        \A i \in 1..Len(Layout) :
            /\ i <= Len(Root.children)
            /\ Get(Root.children[i], "fstype") = Layout[i].filesystem.type

\* Code point of a character (Python compares str by code point).
Ord(c) ==
    CASE c = "-" -> 45
      [] c = "/" -> 47
      [] c = "a" -> 97
      [] c = "b" -> 98
      [] c = "p" -> 112
      [] c = "s" -> 115
      [] c = "t" -> 116
      [] c = "w" -> 119

\* s < t for Python strings: the first differing character decides, a
\* proper prefix is smaller.
RECURSIVE LexLess(_, _)
LexLess(s, t) ==
    IF t = <<>> THEN FALSE
    ELSE IF s = <<>> THEN TRUE
    ELSE IF Head(s) # Head(t) THEN Ord(Head(s)) < Ord(Head(t))
    ELSE LexLess(Tail(s), Tail(t))

\* Does path p end with the mountpoint mp?
EndsWith(p, mp) ==
    /\ Len(mp) <= Len(p)
    /\ SubSeq(p, Len(p) - Len(mp) + 1, Len(p)) = mp

\* The indices in cmds of the mount commands.
MountCmds == {n \in 1..Len(cmds) : cmds[n].tool = "mount"}

\* The partition behind the i-th layout entry, as the kernel holds it.
KernelPart(i) == kernel.parts[TheLoop][i]

IsMounted(i, path) == \E n \in 1..Len(KernelPart(i).mounts) : KernelPart(i).mounts[n] = path

HasTag(i) == "host_mountpoint" \in DOMAIN Root.children[i].data

HostMountpoint(i) == Root.children[i].data["host_mountpoint"]

NonSwap == {i \in 1..Len(Layout) : Layout[i].filesystem.mountpoint # SwapMp}

\* The device holds the layout: one child per entry, each with the entry's
\* filesystem, as the kernel holds them.
Formatted ==
    /\ storage.live
    /\ Len(Root.children) = Len(Layout)
    /\ NumParts = Len(Layout)
    /\ \A i \in 1..Len(Layout) :
          /\ Get(Root.children[i], "fstype") = Layout[i].filesystem.type
          /\ KernelPart(i).fstype = Layout[i].filesystem.type

\* C4: on a formatted device, Storage.mount() issues the mount commands of the non-swap layout
\* entries in lexicographic order of their host paths (an ancestor
\* directory before its descendants), and when mount() has returned every
\* non-swap child is mounted at its host mountpoint, a path that ends with
\* the entry's mountpoint.
C4_MountOrder ==
    (last.op = "mount" /\ last.exc = None /\ Formatted) =>
        /\ \A m, n \in MountCmds : m < n => ~LexLess(cmds[n].path, cmds[m].path)
        /\ \A i \in NonSwap :
              /\ i <= Len(Root.children)
              /\ i <= NumParts
              /\ HasTag(i)
              /\ EndsWith(HostMountpoint(i), Layout[i].filesystem.mountpoint)
              /\ IsMounted(i, HostMountpoint(i))

\* C5: during Storage.mount() on a formatted device no mount command is issued for the
\* partition of a layout entry whose mountpoint is "swap"; when mount()
\* has returned, the entry's child has host_mountpoint "swap".
C5_SwapTagged ==
    (last.op = "mount" /\ Formatted) =>
        \A i \in 1..Len(Layout) :
            Layout[i].filesystem.mountpoint = SwapMp =>
                /\ \A n \in MountCmds : cmds[n].dev # PartPath(TheLoop, i)
                /\ last.exc = None =>
                      /\ i <= Len(Root.children)
                      /\ HasTag(i)
                      /\ HostMountpoint(i) = SwapMp

\* The node a call is made on, before the call, and the partition it
\* stands for.
Callee == NodeAt(storage.device, last'.pos)

CalleePart == kernel.parts[TheLoop][NumOf(Callee.data["path"])]

CalleePartAfter == kernel'.parts[TheLoop][NumOf(Callee.data["path"])]

FormatCmds == {n \in 1..Len(cmds') : cmds'[n].tool \in {"mkfs", "mkswap"}}

\* C6: add_filesystem on a partition without a filesystem succeeds and
\* leaves the partition with the filesystem asked for; add_filesystem on
\* a partition that has one (the second call) raises BlockDeviceError,
\* starts no mkfs or mkswap and leaves the filesystem alone; both for any
\* filesystem type, the external tools working.
C6_SecondAddFilesystemRaises ==
    [][(last'.op = "add_filesystem" /\ ~last'.failed) =>
          IF CalleePart.fstype = None
          THEN /\ last'.exc = None
               /\ CalleePartAfter.fstype = last'.arg
               /\ Get(NodeAt(storage'.device, last'.pos), "fstype") = last'.arg
          ELSE /\ last'.exc = "BlockDeviceError"
               /\ FormatCmds = {}
               /\ CalleePartAfter = CalleePart]_vars

\* A second add_filesystem has raised BlockDeviceError: the partition has
\* the filesystem of an earlier call, another type was asked for.
C6_Witness ==
    /\ last.op = "add_filesystem"
    /\ last.exc = "BlockDeviceError"
    /\ ~last.failed
    /\ Get(NodeAt(Root, last.pos), "fstype") \notin {None, last.arg}

Edits == {n \in 1..Len(cmds') : cmds'[n].tool \in {"sgdisk", "partprobe"}}

\* C7: add_part and probe on a device whose kind is neither disk nor loop
\* raise an exception, BlockDeviceError unless lsblk itself failed, and
\* start neither sgdisk nor partprobe; the partitions are as before.
C7_PartNeverPartitioned ==
    [][(last'.op \in {"add_part", "probe"} /\ Get(Callee, "type") \notin {"disk", "loop"}) =>
          /\ last'.exc # None
          /\ ~last'.failed => last'.exc = "BlockDeviceError"
          /\ last'.op = "probe" => last'.exc = "BlockDeviceError"
          /\ Edits = {}
          /\ kernel' = kernel]_vars

\* add_part, and probe, have raised BlockDeviceError on a partition.
C7_Witness ==
    /\ last.op \in {"add_part", "probe"}
    /\ last.pos # <<>>
    /\ Get(NodeAt(Root, last.pos), "type") = "part"
    /\ last.exc = "BlockDeviceError"

\* C10: list_one turns a failure of lsblk into BlockDeviceNotFoundError
\* when the exit code is the not-found code and into BlockDeviceError for
\* every other exit code but 0.
C10_ListOneMapsExitCodes ==
    (last.op = "list_one" /\ last.code # 0) =>
        last.exc = IF last.code = NotFoundCode THEN "BlockDeviceNotFoundError"
                   ELSE "BlockDeviceError"

\* A size as the claims read it: a decimal number and one of M, G, T, P.
WellFormed(size) ==
    /\ Len(size) > 1
    /\ size[Len(size)] \in {"M", "G", "T", "P"}
    /\ \A i \in 1..(Len(size) - 1) : size[i] \in Digits

\* The number of 1-MiB blocks of a well-formed size.
Blocks(size) ==
    LET n == ParseInt(SubSeq(size, 1, Len(size) - 1))
        suffix == size[Len(size)]
    IN CASE suffix = "M" -> n
         [] suffix = "G" -> n * 1024
         [] suffix = "T" -> n * 1024 * 1024
         [] suffix = "P" -> n * 1024 * 1024 * 1024

\* C8: a Storage built from a configuration of size <n><M|G|T|P> has a
\* backing file of n, n*1024, n*1024^2, n*1024^3 blocks of 1 MiB ("32G":
\* 32768 blocks, 34359738368 bytes), and the back_path of its root device
\* is the configured path of the image.
C8_SparseImageSize ==
    (last.op = "Storage" /\ last.exc = None) =>
        /\ WellFormed(storage.cfg.disk.size)
        /\ storage.cfg.disk.path \in DOMAIN kernel.files
        /\ kernel.files[storage.cfg.disk.path] = Blocks(storage.cfg.disk.size)
        /\ storage.cfg.disk.size = <<"3", "2", "G">> =>
              kernel.files[storage.cfg.disk.path] = 32768
        /\ back_path(Root) = storage.cfg.disk.path
        /\ kernel.loops[Root.data["path"]] = storage.cfg.disk.path

\* A Storage has been built on an image of 2T given by a relative path.
C8_Witness ==
    /\ last.op = "Storage"
    /\ last.exc = None
    /\ last.arg.disk.path \in RelPaths
    /\ storage.cfg.disk.size = <<"2", "T">>
    /\ kernel.files[back_path(Root)] = 2097152

\* The path a call allocates, when the call is an allocation.
Target ==
    IF last'.op = "Storage" THEN abspath(last'.arg.disk.path) ELSE abspath(last'.arg)

\* C9: an allocation (the construction of a Storage, DD.write_file) whose
\* target path exists fails before any external tool is started, with
\* FileExistsError when the size given is well formed, and leaves the
\* files and the loop devices as they were.
C9_NeverOverwrites ==
    [][(last'.op \in {"Storage", "write_file"} /\ Target \in DOMAIN kernel.files) =>
          /\ last'.exc # None
          /\ last'.op = "write_file" => last'.exc = "FileExistsError"
          /\ (last'.op = "Storage" /\ WellFormed(last'.arg.disk.size)) =>
                last'.exc = "FileExistsError"
          /\ cmds' = <<>>
          /\ kernel'.files = kernel.files
          /\ kernel'.loops = kernel.loops]_vars

\* A Storage was refused on the relative path of an image that exists.
C9_Witness ==
    /\ last.op = "Storage"
    /\ last.exc = "FileExistsError"
    /\ last.arg.disk.path \in RelPaths
    /\ abspath(last.arg.disk.path) \in DOMAIN kernel.files
    /\ cmds = <<>>

\* The attributes the claim calls the identity of a node.
Identity == {"path", "type", "back-file"}

\* Every node keeps, from this state to the next, the identity it has.
IdentityKept ==
    \A pos \in Positions :
        \A key \in Identity \cap DOMAIN NodeAt(storage.device, pos).data :
            /\ pos = <<>> \/ pos[1] <= Len(storage'.device.children)
            /\ key \in DOMAIN NodeAt(storage'.device, pos).data
            /\ NodeAt(storage'.device, pos).data[key]
                  = NodeAt(storage.device, pos).data[key]

\* The record given to update disagrees with the node on its identity.
Disagrees ==
    \E key \in Identity \cap DOMAIN last'.arg :
        /\ key \in DOMAIN Callee.data
        /\ last'.arg[key] # Callee.data[key]

\* C1: no sync and no update, returning or raising, changes the path, the
\* type or the back-file a node of the tree has; an update with a record
\* that disagrees with the node on one of them raises KeyError and writes
\* nothing, and an update that returns leaves the node agreeing with the
\* record on all of them.
C1_IdentityNeverChanges ==
    [][/\ (storage.live /\ ~(last'.op = "Storage" /\ last'.exc = None)) => IdentityKept
       /\ (last'.op = "update" /\ Disagrees) =>
             /\ last'.exc = "KeyError"
             /\ storage' = storage
       /\ (last'.op = "update" /\ last'.exc = None) =>
             \A key \in Identity \cap DOMAIN last'.arg :
                 Get(NodeAt(storage'.device, last'.pos), key) = last'.arg[key]]_vars

\* An update with another type has been refused on a node that has
\* children, and a sync has been refused on a tree that disagrees with the
\* kernel; the nodes have the types they had.
C1_Witness ==
    /\ last.op \in {"update", "sync"}
    /\ last.exc = "KeyError"
    /\ last.pos = <<>>
    /\ Root.data["type"] = "loop"
    /\ Len(Root.children) > 0
    /\ last.op = "update" => last.arg["type"] = "disk"

\* The calls of sysbuilder/shell.py that are given a device file.
DeviceOps ==
    {"Lsblk.list_one", "PartProbe.probe_device", "SGDisk.create_partition",
     "SGDisk.set_partition_type", "Mkfs.create", "Mkswap.create",
     "Losetup.detach", "Losetup.list_one", "Mount.mount"}

\* C11: a call of the command layer given a path that is not a block
\* device raises a local error (ValueError, or FileNotFoundError of stat)
\* and starts no external process; Losetup.attach given a block device
\* does the same.
C11_DeviceFileChecked ==
    [][ /\ ((last'.op \in DeviceOps /\ Stat(kernel, abspath(last'.arg)) # "blk") =>
               (last'.exc \in {"ValueError", "FileNotFoundError"} /\ cmds' = <<>>))
        /\ ((last'.op = "Losetup.attach" /\ Stat(kernel, abspath(last'.arg)) = "blk") =>
               (last'.exc = "ValueError" /\ cmds' = <<>>)) ]_vars

\* The model mirrors the kernel: one child per partition of the device.
Mirrors == Len(Root.children) = NumParts

\* C12 as stated: a successful add_part on the disk leaves the model with
\* one child more than it had, whatever the model held before.
C12_OneMoreChild ==
    [][ (last'.op = "add_part" /\ last'.pos = <<>> /\ last'.exc = None) =>
            Len(storage'.device.children) = Len(Root.children) + 1 ]_vars

\* C12, amended: a successful add_part on a disk whose model mirrors the
\* kernel (k children for k partitions) leaves the model with exactly
\* k + 1 children, the last of them the partition just made.
C12_AddPartAppendsChild ==
    [][ (last'.op = "add_part" /\ last'.pos = <<>> /\ last'.exc = None /\ Mirrors) =>
            /\ Len(storage'.device.children) = Len(Root.children) + 1
            /\ storage'.device.children[NumParts + 1].data["path"] =
                   PartPath(TheLoop, NumParts + 1)
            /\ Len(kernel'.parts[TheLoop]) = NumParts + 1 ]_vars

\* The third successful add_part in a row has made the third child.
C12_Witness ==
    /\ last.op = "add_part" /\ last.pos = <<>> /\ last.exc = None
    /\ Len(Root.children) = 3
    /\ NumParts = 3

\* Is the partition behind the i-th child of the model mounted somewhere?
ChildMounted(i) ==
    /\ DevExists(kernel, Root.children[i].data["path"])
    /\ kernel.parts[DiskOf(Root.children[i].data["path"])]
                    [NumOf(Root.children[i].data["path"])].mounts # <<>>

\* Everything the call ran for the root comes after everything it ran for
\* the children.
ChildrenFirst ==
    \A m \in 1..Len(cmds) : cmds[m].dev = Root.data["path"] => m = Len(cmds)

\* C13: BlockDevice.unmount() on the root, no process failing, works on
\* the children before the root, raises nothing and leaves no child of
\* the model mounted (every mountpoint the kernel reported is unmounted).
C13_UnmountDepthFirst ==
    (last.op = "unmount" /\ last.pos = <<>> /\ ~last.failed) =>
        /\ last.exc = None
        /\ ChildrenFirst
        /\ \A i \in 1..Len(Root.children) : ~ChildMounted(i)

\* The device of the model and the partitions behind its children are
\* there and none of them is mounted.
TreeUnmounted ==
    /\ DevExists(kernel, Root.data["path"])
    /\ \A i \in 1..Len(Root.children) :
          /\ DevExists(kernel, Root.children[i].data["path"])
          /\ ~ChildMounted(i)

\* C14: unmounting what is already unmounted raises nothing and changes
\* nothing: Umount.umount of a mountpoint nothing is mounted at (as when it
\* is called again after it succeeded), and BlockDevice.unmount() of a
\* tree with no mount.
C14_UnmountIdempotent ==
    [][ /\ ((last'.op = "Umount.umount" /\ ~IsMountpoint(kernel, last'.arg)) =>
               (last'.exc = None /\ kernel' = kernel))
        /\ ((last'.op = "unmount" /\ last'.pos = <<>> /\ TreeUnmounted) =>
               (last'.exc = None /\ kernel' = kernel)) ]_vars

\* Is the loop device of the model still bound to its backing file?
Bound ==
    /\ Root.data["path"] \in LoopDevs
    /\ kernel.loops[Root.data["path"]] = Root.data["back-file"]

\* C15: BlockDevice.close() on a node of kind loop raises nothing and
\* leaves the loop device detached; on any other node it raises a
\* not-found error and detaches nothing.
C15_CloseDetachesLoop ==
    [][ last'.op = "close" =>
          IF NodeAt(Root, last'.pos).data["type"] = "loop"
          THEN last'.exc = None /\ kernel'.loops[Root.data["path"]] = None
          ELSE /\ last'.exc \in {"BlockDeviceNotFoundError", "LoopDeviceNotFoundError",
                                  "FileSystemNotFoundError"}
               /\ kernel' = kernel ]_vars

\* C16: Storage.close() raises nothing, issues every unmount before the
\* detach and leaves the device with no mount and the loop device
\* detached.
C16_CloseUnmountsThenDetaches ==
    [][ (last'.op = "Storage.close" /\ Bound) =>
          /\ last'.exc = None
          /\ \A u \in {n \in 1..Len(cmds') : cmds'[n].tool \in {"umount", "unmount"}} :
                \A d \in {n \in 1..Len(cmds') : cmds'[n].tool = "losetup"} : u < d
          /\ ~Busy(kernel', TheLoop)
          /\ kernel'.loops[TheLoop] = None ]_vars

\* C17: the construction of a Storage dispatches on the type of the disk.
\* For sparse and raw a success has allocated the image with dd and
\* attached it; for a physical disk that is there (no process failing) it
\* succeeds, the root device is the disk itself, and neither dd nor a
\* loop attach is run.
C17_DispatchOnType ==
    [][ (last'.op = "Storage" /\ ~last'.failed) =>
          /\ (last'.arg.disk.type \in {"sparse", "raw"} /\ last'.exc = None) =>
                /\ cmds'[1].tool = "dd"
                /\ cmds'[2] = AttachCmd(abspath(last'.arg.disk.path))
          /\ (last'.arg.disk.type = "physical"
                 /\ DevExists(kernel, last'.arg.disk.path)) =>
                /\ last'.exc = None
                /\ storage'.device.data["path"] = last'.arg.disk.path
                /\ \A n \in 1..Len(cmds') :
                      /\ cmds'[n].tool # "dd"
                      /\ ~(cmds'[n].tool = "losetup" /\ cmds'[n].mode = "attach") ]_vars

\* C18: when a process fails during format(), add_part() or
\* add_filesystem(), the call ends with an exception, no process is
\* started after the one that failed (no retry, no clean-up), and what was
\* made before the failure stays: no partition is gone, no filesystem is
\* gone or changed.
C18_FailureEndsTheCall ==
    [][ (last'.op \in {"format", "add_part", "add_filesystem"} /\ last'.failed) =>
          /\ last'.exc # None
          /\ last'.late = 0
          /\ \A n \in 1..Len(cmds') :
                cmds'[n].tool \in {"lsblk", "partprobe", "sgdisk", "mkfs", "mkswap"}
          /\ Len(kernel'.parts[TheLoop]) >= NumParts
          /\ \A i \in 1..NumParts :
                kernel.parts[TheLoop][i].fstype # None =>
                    kernel'.parts[TheLoop][i] = kernel.parts[TheLoop][i] ]_vars

\* format() has failed at the lsblk that follows the sgdisk of a
\* partition: the partition is there, without a filesystem, and nothing
\* was run after the lsblk.
C18_Witness ==
    /\ last.op = "format"
    /\ last.failed
    /\ last.exc # None
    /\ Len(cmds) >= 2
    /\ cmds[Len(cmds) - 1].tool = "sgdisk"
    /\ cmds[Len(cmds)].tool = "lsblk"
    /\ NumParts = Len(Root.children) + 1
    /\ kernel.parts[TheLoop][NumParts].fstype = None

\* The classes of sysbuilder/exceptions.py, all subclasses of
\* _SysBuilderError.
SysBuilderErrors ==
    {"BlockDeviceExistsError", "BlockDeviceError", "BlockDeviceNotFoundError",
     "LoopDeviceExistsError", "LoopDeviceError", "LoopDeviceNotFoundError",
     "FileSystemExistsError", "FileSystemError", "FileSystemNotFoundError"}

\* The process that failed: the last one started.
FailedCmd == cmds[Len(cmds)]

\* C19: a call in which an external process failed ends in an error of
\* the taxonomy, never in the raw process error: ProbeError for a rescan,
\* PartitionCreateError or BlockDeviceError for an edit of the partition
\* table, FileSystemError for mkfs, mkswap and mount, LoopDeviceError for
\* losetup, an error derived from the root storage error for the rest.
C19_FailuresMapped ==
    (last.op # "idle" /\ last.failed) =>
        /\ last.exc # "CalledProcessError"
        /\ last.exc \in SysBuilderErrors \cup {"ProbeError", "PartitionCreateError"}
        /\ FailedCmd.tool = "partprobe" => last.exc = "ProbeError"
        /\ FailedCmd.tool = "sgdisk" =>
               last.exc \in {"PartitionCreateError", "BlockDeviceError"}
        /\ FailedCmd.tool \in {"mkfs", "mkswap", "mount"} => last.exc = "FileSystemError"
        /\ FailedCmd.tool = "losetup" => last.exc = "LoopDeviceError"

Created == SelectSeq(cmds', LAMBDA c : c.tool = "sgdisk")

\* C21: the j-th partition edit of one add_part or format is given the
\* number of partitions the device had before the call plus j (add_part
\* makes one: the count plus one), with the typecode asked for, the one of
\* layout entry j in format; started on a device without partitions, the
\* edits are numbered 1, 2, 3 in the order of the calls and of the layout.
C21_OrdinalIsCountPlusOne ==
    [][ (last'.op \in {"add_part", "format"}) =>
          /\ (last'.op = "add_part") => Len(Created) <= 1
          /\ \A j \in 1..Len(Created) :
                /\ Created[j].num = NumParts + j
                /\ (last'.op = "add_part") => (Created[j].arg = last'.arg)
                /\ (last'.op = "format") =>
                      (/\ j <= Len(Layout)
                       /\ Created[j].arg = Layout[j].typecode) ]_vars

\* A format on a device without partitions has reached its second layout
\* entry and edited partitions 1 and 2 in that order.
C21_Witness ==
    /\ last.op = "format"
    /\ last.fresh
    /\ \E m, n \in 1..Len(cmds) :
          /\ m < n
          /\ cmds[m].tool = "sgdisk" /\ cmds[m].num = 1
          /\ cmds[n].tool = "sgdisk" /\ cmds[n].num = 2
          /\ cmds[n].arg = Layout[2].typecode

\* The number of the partition edited last before the n-th command of the
\* call whose commands are cmds (0 when none was).
EntryOf(n) ==
    IF \E m \in 1..(n - 1) : cmds[m].tool = "sgdisk"
    THEN cmds[CHOOSE m \in 1..(n - 1) :
                 /\ cmds[m].tool = "sgdisk"
                 /\ \A q \in (m + 1)..(n - 1) : cmds[q].tool # "sgdisk"].num
    ELSE 0

\* C22: a format on a device without partitions, no external process
\* failing, asks between one partition edit and the next only for the
\* partition just made (every query and every mkfs or mkswap given a
\* partition is given that one), and creates the filesystem of each layout
\* entry once, with the declared type, on the partition of that number.
C22_FormatsOnlyTheNewPartition ==
    (last.op = "format" /\ last.fresh /\ ~last.failed) =>
        /\ \A n \in 1..Len(cmds) :
              IsPart(cmds[n].dev) => cmds[n].dev = PartPath(TheLoop, EntryOf(n))
        /\ \A i \in 1..Len(Layout) :
              \E n \in 1..Len(cmds) :
                 /\ cmds[n].tool \in {"mkfs", "mkswap"}
                 /\ cmds[n].dev = PartPath(TheLoop, i)
                 /\ (cmds[n].tool = "mkswap") = (Layout[i].filesystem.type = "swap")
                 /\ (cmds[n].tool = "mkfs") => (cmds[n].arg = Layout[i].filesystem.type)
                 /\ \A q \in 1..Len(cmds) :
                       (cmds[q].tool \in {"mkfs", "mkswap"} /\ cmds[q].dev = cmds[n].dev)
                           => q = n

\* The partitions and filesystems the kernel holds in this state are still
\* there, as they are, in the next.
NothingUndone ==
    /\ \A d \in LoopDevs : kernel.loops[d] # None => kernel'.loops[d] = kernel.loops[d]
    /\ Len(kernel'.parts[TheLoop]) >= NumParts
    /\ \A i \in 1..NumParts :
          KernelPart(i).fstype # None
              => kernel'.parts[TheLoop][i].fstype = KernelPart(i).fstype

\* C23: no call of the orchestrator (Storage.format, Storage.mount) takes
\* the device back a stage: what is attached stays attached, partitions
\* and filesystems stay; and on a device that holds its layout (Formatted)
\* such a call edits no partition and creates no filesystem, the
\* partitions of the device are afterwards the ones it had.
C23_LifecycleMonotonic ==
    [][ (storage.live /\ last'.op \in {"format", "mount"}) =>
          /\ NothingUndone
          /\ Formatted =>
                /\ \A n \in 1..Len(cmds') :
                      cmds'[n].tool \notin {"sgdisk", "mkfs", "mkswap"}
                /\ kernel'.parts = kernel.parts ]_vars

(***************************************************************************)
(* SpecRace: _BlockDevice.create_partition run by two callers at once on   *)
(* the loop device of one image, statement by statement.                   *)
(***************************************************************************)
InCall(a) == actors[a].pc \notin {"outside", "returned"}

\* A caller has run one statement: ctx is what the statement left.
Step(a, pc, num, ctx) ==
    /\ kernel' = ctx.k
    /\ actors' = [actors EXCEPT ![a] =
                     [@ EXCEPT !.pc  = IF ctx.exc # None THEN "returned" ELSE pc,
                               !.num = num,
                               !.exc = ctx.exc]]
    /\ UNCHANGED <<storage, cmds, last>>

\* create_partition is entered: _BlockDevice.partprobe(devpath)
EnterCreate(a) ==
    /\ Active
    /\ storage.live
    /\ NumParts < MaxParts
    /\ actors[a].pc = "outside"
    /\ \E ctx \in {partprobe(Ctx0(NoFault), TheLoop)} :
          /\ kernel' = ctx.k
          /\ actors' = [actors EXCEPT ![a] =
                           [pc  |-> IF ctx.exc # None THEN "returned" ELSE "probed",
                            num |-> 0,
                            exc |-> ctx.exc,
                            overlapped |-> \E b \in Actors \ {a} : InCall(b)]]
          /\ UNCHANGED <<storage, cmds, last>>

\* dev = list_one(devpath); new_part_num = len(dev.get("children", [])) + 1
CountChildren(a) ==
    /\ actors[a].pc = "probed"
    /\ \E ctx \in {list_one(Ctx0(NoFault), TheLoop)} :
          Step(a, "counted",
               IF ctx.exc # None THEN 0
               ELSE CountPartitions(LsblkRecord(ctx.k, TheLoop)) + 1,
               ctx)

\* subprocess.run(["sgdisk", "--new", new_part_num ..., devpath])
EditTable(a) ==
    /\ actors[a].pc = "counted"
    /\ \E c \in {Run(Ctx0(NoFault), SgdiskCmd(TheLoop, actors[a].num, "8300"))} :
          Step(a, "returned", actors[a].num,
               IF c.code = 0 THEN c ELSE Raise(c, "BlockDeviceError"))

\* The caller has the outcome and is outside the function again.
LeaveCreate(a) ==
    /\ actors[a].pc = "returned"
    /\ actors' = [actors EXCEPT ![a] = Outside]
    /\ UNCHANGED <<kernel, storage, cmds, last>>

NextRace ==
    \/ Construct({DefaultConfig}, {NoFault})
    \/ Return
    \/ \E a \in Actors : EnterCreate(a)
    \/ \E a \in Actors : CountChildren(a)
    \/ \E a \in Actors : EditTable(a)
    \/ \E a \in Actors : LeaveCreate(a)

SpecRace == Init /\ [][NextRace]_vars

\* Two callers have each given sgdisk the same partition number.
SameOrdinal ==
    \E a, b \in Actors :
        /\ a # b
        /\ actors[a].pc = "returned"
        /\ actors[b].pc = "returned"
        /\ actors[a].num > 0
        /\ actors[a].num = actors[b].num

\* C24: two callers of create_partition give sgdisk the same partition
\* number only when one of them entered the function while the other was
\* inside it; callers that run one after the other (serialised, as through
\* one Storage) never do.
C24_SameOrdinalOnlyWhenConcurrent ==
    SameOrdinal => \E a \in Actors : actors[a].overlapped

\* Both callers read the same count while inside create_partition together
\* and both edits were given that number: the first made the partition,
\* the second was refused.
C24_Witness ==
    /\ SameOrdinal
    /\ \E a \in Actors : actors[a].overlapped
    /\ \E a, b \in Actors :
          /\ actors[a].exc = None
          /\ actors[b].exc = "BlockDeviceError"
          /\ actors[a].num = actors[b].num

\* The node update is called on, after the call.
CalleeAfter == NodeAt(storage'.device, last'.pos)

\* The children list of the record given to update.
Incoming == IF "children" \in DOMAIN last'.arg THEN last'.arg["children"] ELSE <<>>

\* The children of the node after the call are the ones it had, in their
\* places and with their paths, followed by one new child for every path
\* of the record that no child had; every entry of the record has exactly
\* one child with its path, which holds the entry's values; a child no
\* entry names is as it was.
Reconciled ==
    /\ Len(CalleeAfter.children) >= Len(Callee.children)
    /\ \A i \in 1..Len(Callee.children) :
          /\ CalleeAfter.children[i].data["path"] = Callee.children[i].data["path"]
          /\ (\A j \in 1..Len(Incoming) :
                 Incoming[j]["path"] # Callee.children[i].data["path"])
             => CalleeAfter.children[i] = Callee.children[i]
    /\ \A i \in (Len(Callee.children) + 1)..Len(CalleeAfter.children) :
          /\ \E j \in 1..Len(Incoming) :
                Incoming[j]["path"] = CalleeAfter.children[i].data["path"]
          /\ \A n \in 1..Len(Callee.children) :
                Callee.children[n].data["path"] # CalleeAfter.children[i].data["path"]
    /\ \A j \in 1..Len(Incoming) :
          \E i \in 1..Len(CalleeAfter.children) :
             /\ CalleeAfter.children[i].data["path"] = Incoming[j]["path"]
             /\ \A n \in 1..Len(CalleeAfter.children) :
                   (CalleeAfter.children[n].data["path"] = Incoming[j]["path"]) => n = i
             /\ \A key \in DOMAIN Incoming[j] \ {"children"} :
                   Get(CalleeAfter.children[i], key) = Incoming[j][key]

\* C25 as stated: an update that returns has reconciled the children by
\* path, and the attributes of the node are then the record given (the
\* same keys with the same values, "children" apart).
C25_AttributesEqualRecord ==
    [][ (last'.op = "update" /\ last'.exc = None) =>
          /\ Reconciled
          /\ DOMAIN CalleeAfter.data = DOMAIN last'.arg \ {"children"}
          /\ \A key \in DOMAIN last'.arg \ {"children"} :
                CalleeAfter.data[key] = last'.arg[key] ]_vars

\* C25, amended: an update that returns has reconciled the children by
\* path (a known path merged into its child, an unknown one appended), and
\* the node holds the record's value under every key of the record but
\* "children"; a key the record lacks keeps the value the node had.
C25_UpdateReconciles ==
    [][ (last'.op = "update" /\ last'.exc = None) =>
          /\ Reconciled
          /\ DOMAIN CalleeAfter.data = (DOMAIN Callee.data \cup DOMAIN last'.arg) \ {"children"}
          /\ \A key \in DOMAIN last'.arg \ {"children"} :
                CalleeAfter.data[key] = last'.arg[key]
          /\ \A key \in DOMAIN Callee.data \ DOMAIN last'.arg :
                CalleeAfter.data[key] = Callee.data[key] ]_vars

\* An update of the device has returned whose record named a child the
\* node had and a partition it did not have: one child more than entries
\* matched, the values of the record on the node.
C25_Witness ==
    /\ last.op = "update"
    /\ last.exc = None
    /\ last.pos = <<>>
    /\ "children" \in DOMAIN last.arg
    /\ Len(last.arg["children"]) = 2
    /\ last.arg["children"][1]["path"] # last.arg["children"][2]["path"]
    /\ last.arg["children"][2]["path"] = Root.children[1].data["path"]
    /\ Len(Root.children) = 2
    /\ Root.children[2].data["path"] = last.arg["children"][1]["path"]
    /\ "back-file" \notin DOMAIN last.arg
    /\ "back-file" \in DOMAIN Root.data

\* C26: every creation command an add_filesystem starts is mkswap when the
\* type asked for is "swap" and only then, else mkfs with that type, on
\* the node's device; an add_filesystem that returns has started exactly
\* one, has queried the device after it, and leaves the node with the
\* filesystem type the kernel holds for the partition, the one asked for.
C26_DispatchOnFsType ==
    [][ (last'.op = "add_filesystem") =>
          /\ \A n \in FormatCmds :
                /\ cmds'[n].dev = Callee.data["path"]
                /\ (cmds'[n].tool = "mkswap") = (last'.arg = "swap")
                /\ (cmds'[n].tool = "mkfs") => (cmds'[n].arg = last'.arg)
          /\ (last'.exc = None) =>
                /\ \E n \in FormatCmds :
                      /\ FormatCmds = {n}
                      /\ \E m \in (n + 1)..Len(cmds') :
                            /\ cmds'[m].tool = "lsblk"
                            /\ cmds'[m].dev = Callee.data["path"]
                /\ Get(CalleeAfter, "fstype") = CalleePartAfter.fstype
                /\ CalleePartAfter.fstype = last'.arg ]_vars

\* An add_filesystem for swap has returned: mkswap was run, not mkfs, and
\* the node says swap.
C26_Witness ==
    /\ last.op = "add_filesystem"
    /\ last.arg = "swap"
    /\ last.exc = None
    /\ \E n \in 1..Len(cmds) : cmds[n].tool = "mkswap"
    /\ \A n \in 1..Len(cmds) : cmds[n].tool # "mkfs"
    /\ Get(NodeAt(Root, last.pos), "fstype") = "swap"

\* C27: in every add_part, add_filesystem and format, a device given to
\* mkfs or mkswap is a partition that held no filesystem when the call
\* began (or that the call itself made), and no device is given to them
\* twice in one call; a partition that holds a filesystem keeps it.
C27_NoSilentReformat ==
    [][ (last'.op \in {"add_part", "add_filesystem", "format"}) =>
          /\ \A n \in FormatCmds :
                /\ IsPart(cmds'[n].dev)
                /\ (NumOf(cmds'[n].dev) <= NumParts)
                      => (KernelPart(NumOf(cmds'[n].dev)).fstype = None)
                /\ \A m \in FormatCmds : (cmds'[m].dev = cmds'[n].dev) => m = n
          /\ \A i \in 1..NumParts :
                (KernelPart(i).fstype # None)
                    => (kernel'.parts[TheLoop][i].fstype = KernelPart(i).fstype) ]_vars

\* A format has asked for a filesystem on a partition that holds one and
\* was refused: no mkfs, no mkswap was started on that partition.
C27_Witness ==
    /\ last.op = "format"
    /\ last.exc = "BlockDeviceError"
    /\ ~last.failed
    /\ NumParts >= 2
    /\ KernelPart(1).fstype # None
    /\ \E n \in 1..Len(cmds) : cmds[n].tool = "lsblk" /\ cmds[n].dev = PartPath(TheLoop, 1)
    /\ \A n \in 1..Len(cmds) :
          (cmds[n].tool \in {"mkfs", "mkswap"}) => (cmds[n].dev # PartPath(TheLoop, 1))
    /\ KernelPart(2).fstype = None

\* The paths of the children of a node, in order.
ChildPaths(node) == [i \in 1..Len(node.children) |-> node.children[i].data["path"]]

\* C28: in every state the children of the device have pairwise distinct
\* paths (and every child has a path), whatever records update and sync
\* were given.
C28_DistinctChildPaths ==
    \A i, j \in 1..Len(Root.children) :
        /\ "path" \in DOMAIN Root.children[i].data
        /\ (ChildPaths(Root)[i] = ChildPaths(Root)[j]) => i = j

\* An update has returned whose record listed the same unknown path
\* twice: the device has one child with that path.
C28_Witness ==
    /\ last.op = "update"
    /\ last.exc = None
    /\ last.pos = <<>>
    /\ "children" \in DOMAIN last.arg
    /\ Len(last.arg["children"]) = 2
    /\ last.arg["children"][1]["path"] = last.arg["children"][2]["path"]
    /\ last.fresh
    /\ Len(Root.children) = 1
    /\ Root.children[1].data["path"] = last.arg["children"][1]["path"]

\* C29: no call on one Storage removes or reorders the children of the
\* device: the paths of the children before the call are, in order, the
\* first paths of the children after it, whether the call returns or
\* raises and whatever the record or the kernel lists.
C29_ChildrenAppendOnly ==
    [][ (storage.live /\ ~(last'.op = "Storage" /\ last'.exc = None)) =>
          /\ Len(storage'.device.children) >= Len(Root.children)
          /\ \A i \in 1..Len(Root.children) :
                ChildPaths(storage'.device)[i] = ChildPaths(Root)[i] ]_vars

\* An update has returned whose record listed the two children of the
\* device in the other order: the children are in the order they had.
C29_Witness ==
    /\ last.op = "update"
    /\ last.exc = None
    /\ last.pos = <<>>
    /\ Len(Root.children) = 2
    /\ "children" \in DOMAIN last.arg
    /\ Len(last.arg["children"]) = 2
    /\ last.arg["children"][1]["path"] = ChildPaths(Root)[2]
    /\ last.arg["children"][2]["path"] = ChildPaths(Root)[1]

\* C30: an update or a sync that raises KeyError (a record that disagrees
\* with a node on path, type or back-file, on the node itself or on one
\* of the children listed) leaves the whole tree as it was: the
\* attributes and the children of every node.
C30_FailedUpdateIsAtomic ==
    [][ (last'.op \in {"update", "sync"} /\ last'.exc = "KeyError") =>
            storage' = storage ]_vars

============================================================================
